---- MODULE Spec2Model ----
(***************************************************************************)
(* A model of the discrete-random-variable algebra (utils.py) and of the   *)
(* binomial option model built on it (binomial-model.py).                  *)
(*                                                                         *)
(* Numbers.  A Python number is modelled as an exact rational <<n, d>> in  *)
(* lowest terms with d > 0; floating-point error is not modelled, so "=="  *)
(* below is exact where the program is exact up to rounding error.         *)
(* numpy arrays are modelled as heap cells holding sequences, so that      *)
(* aliasing and in-place updates are visible.                              *)
(***************************************************************************)
EXTENDS Integers, Sequences, FiniteSets, TLC

(***************************************************************************)
(* Rational arithmetic                                                     *)
(***************************************************************************)
Abs(n) == IF n < 0 THEN -n ELSE n

RECURSIVE GCD(_, _)
GCD(m, n) == IF n = 0 THEN m ELSE GCD(n, m % n)

Rat(n, d) ==
    LET g == GCD(Abs(n), Abs(d))
        s == IF d < 0 THEN -1 ELSE 1
    IN  <<s * (n \div g), s * (d \div g)>>

Whole(n) == <<n, 1>>
Zero == Whole(0)
One == Whole(1)

RAdd(x, y) ==
    LET g == GCD(x[2], y[2])
    IN  Rat(x[1] * (y[2] \div g) + y[1] * (x[2] \div g), (x[2] \div g) * y[2])

RNeg(x) == <<-x[1], x[2]>>
RSub(x, y) == RAdd(x, RNeg(y))

RMul(x, y) ==
    LET g1 == GCD(Abs(x[1]), y[2])
        g2 == GCD(Abs(y[1]), x[2])
    IN  <<(x[1] \div g1) * (y[1] \div g2), (x[2] \div g2) * (y[2] \div g1)>>

RDiv(x, y) == RMul(x, IF y[1] < 0 THEN <<-y[2], -y[1]>> ELSE <<y[2], y[1]>>)

RLt(x, y) ==
    LET g == GCD(x[2], y[2])
    IN  x[1] * (y[2] \div g) < y[1] * (x[2] \div g)

RLe(x, y) == x = y \/ RLt(x, y)
RAbs(x) == <<Abs(x[1]), x[2]>>
RMax(x, y) == IF RLt(x, y) THEN y ELSE x

RECURSIVE RPow(_, _)
RPow(x, k) == IF k = 0 THEN One ELSE RMul(x, RPow(x, k - 1))

RECURSIVE RSum(_)
RSum(s) == IF s = <<>> THEN Zero ELSE RAdd(Head(s), RSum(Tail(s)))

(***************************************************************************)
(* round(x, ndigits): the nearest multiple of 10^-ndigits, a tie going to  *)
(* the even multiple.  The fraction is developed digit by digit.           *)
(***************************************************************************)
RoundDigits == 5

RECURSIVE Scaled(_, _, _)
\* <<q, r>> with  q + r/d = (r0/d) * 10^k  and 0 <= r < d
Scaled(r, d, k) ==
    IF k = 0 THEN <<0, r>>
    ELSE LET t == Scaled(r, d, k - 1)
             n == t[2] * 10
         IN  <<t[1] * 10 + (n \div d), n % d>>

RECURSIVE Pow10(_)
Pow10(k) == IF k = 0 THEN 1 ELSE 10 * Pow10(k - 1)

Round(x, ndigits) ==
    LET q == x[1] \div x[2]
        t == Scaled(x[1] % x[2], x[2], ndigits)
        m == t[1]
        up == \/ 2 * t[2] > x[2]
              \/ 2 * t[2] = x[2] /\ (q * Pow10(ndigits) + m) % 2 = 1
    IN  RAdd(Whole(q), Rat(IF up THEN m + 1 ELSE m, Pow10(ndigits)))

(***************************************************************************)
(* The heap of arrays (numpy arrays and Python lists of numbers)           *)
(***************************************************************************)
NoAddr == 0

NextFree(h) ==
    CHOOSE a \in 1..(Cardinality(DOMAIN h) + 1) :
        a \notin DOMAIN h /\ \A b \in 1..(a - 1) : b \in DOMAIN h

\* a fresh array holding s
New(h, s) == LET a == NextFree(h) IN [h |-> (a :> s) @@ h, v |-> a]

Raise(h, exc) == [h |-> h, v |-> [kind |-> "error", exc |-> exc]]
NoneValue == [kind |-> "None"]
Number(r) == [kind |-> "number", val |-> r]
IsDRV(v) == v.kind = "DRV"
IsNumber(v) == v.kind = "number"

(***************************************************************************)
(* DiscreteRandomVariable.__init__                                         *)
(***************************************************************************)
\* list < list : lexicographic on [d, weight]
PairLess(p, q) == RLt(p[1], q[1]) \/ (p[1] = q[1] /\ RLt(p[2], q[2]))

RECURSIVE Insert(_, _)
Insert(s, p) ==
    IF s = <<>> THEN <<p>>
    ELSE IF PairLess(p, Head(s)) THEN <<p>> \o s
    ELSE <<Head(s)>> \o Insert(Tail(s), p)

RECURSIVE Sort(_)
Sort(s) == IF s = <<>> THEN <<>> ELSE Insert(Sort(Tail(s)), Head(s))

\* weights = np.array(weights, dtype=float)
WeightsArray(h, weights) == New(h, h[weights])

\* weights /= w_sum
DivideInPlace(h, w, w_sum) ==
    [h EXCEPT ![w] = [i \in DOMAIN h[w] |-> RDiv(h[w][i], w_sum)]]

\* self.domain = np.array(...); self.probability = np.array(...)
StoreArrays(h, dom, prob) ==
    LET a == NextFree(h)
        b == NextFree((a :> dom) @@ h)
    IN  [h |-> (b :> prob) @@ (a :> dom) @@ h,
         v |-> [kind |-> "DRV", domain |-> a, probability |-> b]]

\* the two columns of the sorted data
StoreSorted(h, s) ==
    StoreArrays(h, [i \in DOMAIN s |-> s[i][1]], [i \in DOMAIN s |-> s[i][2]])

\* data.sort(), then the two arrays
Store(h, data) == StoreSorted(h, Sort(data))

\* data = [[d, weights[i]] for i, d in enumerate(domain)], sorted and stored
StoreWeighted(h, domain, w) ==
    Store(h, [i \in DOMAIN h[domain] |-> <<h[domain][i], h[w][i]>>])

\* weights /= w_sum on the array c made of the weights, then the data
Normalize(c, domain, w_sum) ==
    StoreWeighted(DivideInPlace(c.h, c.v, w_sum), domain, c.v)

\* domain, weights: addresses of the arrays passed in; weights = NoAddr for None
DRVInit(h, domain, weights) ==
    LET n == Len(h[domain]) IN
    IF weights = NoAddr
    THEN Store(h, [i \in 1..n |-> <<h[domain][i], Rat(1, n)>>])
    ELSE IF Len(h[weights]) # n THEN Raise(h, "AssertionError")
    ELSE IF ~RLt(Zero, RSum(h[weights])) THEN Raise(h, "AssertionError")
    ELSE Normalize(WeightsArray(h, weights), domain, RSum(h[weights]))

\* DiscreteRandomVariable(<list>, <list>) on two list literals
DRVOfLists(h, domain, weights) ==
    LET d == New(h, domain)
        w == New(d.h, weights)
    IN  DRVInit(w.h, d.v, w.v)

(***************************************************************************)
(* copy, __add__, __sub__, __mul__, transform                              *)
(***************************************************************************)
Copy(h, self) ==
    LET d == New(h, h[self.domain])
        p == New(d.h, h[self.probability])
    IN  DRVInit(p.h, d.v, p.v)

ApplyOp(op, x, y) ==
    CASE op = "+" -> RAdd(x, y)
      [] op = "-" -> RSub(x, y)
      [] op = "*" -> RMul(x, y)

\* as ArrayOpScalar, but updating the array in place (self.domain += other)
ArrayOpScalarInPlace(h, op, a, other) ==
    [h |-> [h EXCEPT ![a] = [i \in DOMAIN h[a] |-> ApplyOp(op, h[a][i], other)]],
     v |-> a]

\* self.domain + other, self.domain - other, self.domain * other (a new array)
ArrayOpScalar(h, op, a, other) ==
    New(h, [i \in DOMAIN h[a] |-> ApplyOp(op, h[a][i], other)])

\* as DictAdd, but overwriting the entry (values[k] = w)
DictOverwrite(values, k, w) ==
    IF \E i \in DOMAIN values : values[i][1] = k
    THEN [i \in DOMAIN values |-> IF values[i][1] = k THEN <<k, w>> ELSE values[i]]
    ELSE Append(values, <<k, w>>)

\* values[k] = values.get(k, 0) + w, on a dict kept in insertion order
DictAdd(values, k, w) ==
    IF \E i \in DOMAIN values : values[i][1] = k
    THEN [i \in DOMAIN values |->
            IF values[i][1] = k THEN <<k, RAdd(values[i][2], w)>> ELSE values[i]]
    ELSE Append(values, <<k, w>>)

\* new_val = round(self.domain[i] op other.domain[j], 5)
NewVal(op, x, y) == Round(ApplyOp(op, x, y), RoundDigits)

\* the dict after the first k pairs of product(range(n), range(m))
RECURSIVE CrossValues(_, _, _, _, _, _)
CrossValues(op, sd, sp, od, oprob, k) ==
    IF k = 0 THEN <<>>
    ELSE LET m == Len(od)
             i == ((k - 1) \div m) + 1
             j == ((k - 1) % m) + 1
         IN  DictAdd(CrossValues(op, sd, sp, od, oprob, k - 1),
                     NewVal(op, sd[i], od[j]), RMul(sp[i], oprob[j]))

Keys(values) == [i \in DOMAIN values |-> values[i][1]]
Values(values) == [i \in DOMAIN values |-> values[i][2]]

\* DiscreteRandomVariable(list(values.keys()), list(values.values()))
OfDict(h, values) == DRVOfLists(h, Keys(values), Values(values))

\* the DRV branch shared by __add__, __sub__ and __mul__
Combine(h, op, self, other) ==
    OfDict(h, CrossValues(op, h[self.domain], h[self.probability],
                          h[other.domain], h[other.probability],
                          Len(h[self.domain]) * Len(h[other.domain])))

\* the Number branch of __add__ and __sub__, and of __mul__ away from zero
Shift(h, op, self, other) ==
    LET d == ArrayOpScalar(h, op, self.domain, other.val)
    IN  DRVInit(d.h, d.v, self.probability)

Add(h, self, other) ==
    IF IsNumber(other) THEN Shift(h, "+", self, other)
    ELSE IF IsDRV(other) THEN Combine(h, "+", self, other)
    ELSE [h |-> h, v |-> NoneValue]

Sub(h, self, other) ==
    IF IsNumber(other) THEN Shift(h, "-", self, other)
    ELSE IF IsDRV(other) THEN Combine(h, "-", self, other)
    ELSE [h |-> h, v |-> NoneValue]

\* abs(other) < 1e-10: of the rationals the model can hold (|n|, d < 2^31)
\* only zero is that small
NearZero(r) == r[1] = 0

Mul(h, self, other) ==
    IF IsNumber(other)
    THEN IF NearZero(other.val)
         THEN DRVOfLists(h, <<Zero>>, <<One>>)
         ELSE Shift(h, "*", self, other)
    ELSE IF IsDRV(other) THEN Combine(h, "*", self, other)
    ELSE [h |-> h, v |-> NoneValue]

\* DiscreteRandomVariable defines no __truediv__ / __rtruediv__
TrueDiv(h, self, other) == Raise(h, "TypeError")

\* the callables passed to transform / expectation
Payoff(call, strike) == [f |-> IF call THEN "call" ELSE "put", k |-> strike]
Identity == [f |-> "id", k |-> Zero]
Absolute == [f |-> "abs", k |-> Zero]
Centered(mu) == [f |-> "dev2", k |-> mu]
Call(func, xx) ==
    CASE func.f = "id" -> xx
      [] func.f = "abs" -> RAbs(xx)
      [] func.f = "call" -> RMax(RSub(xx, func.k), Zero)
      [] func.f = "put" -> RMax(RSub(func.k, xx), Zero)
      [] func.f = "dev2" -> RMul(RSub(xx, func.k), RSub(xx, func.k))

RECURSIVE TransformValues(_, _, _, _)
TransformValues(func, d, p, k) ==
    IF k = 0 THEN <<>>
    ELSE DictAdd(TransformValues(func, d, p, k - 1), Call(func, d[k]), p[k])

Transform(h, self, func) ==
    OfDict(h, TransformValues(func, h[self.domain], h[self.probability],
                              Len(h[self.domain])))

\* precision = 0 stands for None (if precision: ... is false for both)
Expectation(h, self, func, precision) ==
    LET d == h[self.domain]
        p == h[self.probability]
        result == RSum([i \in DOMAIN d |-> RMul(Call(func, d[i]), p[i])])
    IN  IF precision # 0 THEN Round(result, precision) ELSE result

Dispersion(h, self, precision) ==
    Expectation(h, self, Centered(Expectation(h, self, Identity, 0)), precision)

\* the scan of pick(), (i, w) being the loop's variables (i counted from 1);
\* the result is the index returned, or 0 for an IndexError
RECURSIVE PickScan(_, _, _, _)
PickScan(p, threshold, i, w) ==
    IF RLt(w, threshold)
    THEN IF i + 1 > Len(p) THEN 0
         ELSE PickScan(p, threshold, i + 1, RAdd(w, p[i + 1]))
    ELSE i

Pick(h, self, threshold) ==
    LET p == h[self.probability] IN
    IF Len(p) = 0 THEN [kind |-> "error", exc |-> "IndexError"]
    ELSE LET i == PickScan(p, threshold, 1, p[1]) IN
         IF i = 0 THEN [kind |-> "error", exc |-> "IndexError"]
         ELSE Number(h[self.domain][i])

(***************************************************************************)
(* BinomialModel                                                           *)
(***************************************************************************)
DefaultPeriods == 1

\* the object, once both random variables are built
BMObject(inc, risk_neutral, irn, s0, rate, periods) ==
    IF ~IsDRV(irn.v) THEN irn
    ELSE [h |-> irn.h,
          v |-> [kind |-> "BM", increment |-> inc.v, periods |-> periods,
                 rate |-> rate, s0 |-> s0, risk_neutral |-> risk_neutral.v,
                 increment_risk_neutral |-> irn.v]]

\* self.increment_risk_neutral =
\*     DiscreteRandomVariable(np.array([u, d]), self.risk_neutral)
BMRiskNeutral(inc, risk_neutral, s0, u, d, rate, periods) ==
    LET ud == New(risk_neutral.h, <<u, d>>)
    IN  BMObject(inc, risk_neutral, DRVInit(ud.h, ud.v, risk_neutral.v),
                 s0, rate, periods)

\* the rest of __init__, inc being self.increment
BMAfterIncrement(inc, s0, u, d, rate, periods) ==
    IF ~IsDRV(inc.v) THEN inc
    ELSE IF u = d THEN Raise(inc.h, "ZeroDivisionError")
    ELSE BMRiskNeutral(inc,
                       New(inc.h, <<RDiv(RSub(RAdd(One, rate), d), RSub(u, d)),
                                    RDiv(RSub(RSub(u, One), rate), RSub(u, d))>>),
                       s0, u, d, rate, periods)

BMInit(h, s0, u, d, p, q, rate, periods) ==
    BMAfterIncrement(DRVOfLists(h, <<u, d>>, <<p, q>>), s0, u, d, rate, periods)

\* as MulLoop, but one multiplication short (range(n - 1))
RECURSIVE MulLoopShort(_, _, _, _)
MulLoopShort(h, expectation, irn, n) ==
    IF n <= 1 THEN [h |-> h, v |-> expectation]
    ELSE LET prev == MulLoopShort(h, expectation, irn, n - 1) IN
         IF ~IsDRV(prev.v) THEN prev ELSE Mul(prev.h, prev.v, irn)

\* for _ in range(n): expectation *= self.increment_risk_neutral
\* (no __imul__ is defined, so this is expectation = expectation * ...)
RECURSIVE MulLoop(_, _, _, _)
MulLoop(h, expectation, irn, n) ==
    IF n <= 0 THEN [h |-> h, v |-> expectation]
    ELSE LET prev == MulLoop(h, expectation, irn, n - 1) IN
         IF ~IsDRV(prev.v) THEN prev ELSE Mul(prev.h, prev.v, irn)

\* t.expectation() / ((1 + self.rate) ** self.periods), t the transformed variable
Discount(t, growth) ==
    IF ~IsDRV(t.v) THEN t
    ELSE IF growth = Zero THEN Raise(t.h, "ZeroDivisionError")
    ELSE [h |-> t.h, v |-> Number(RDiv(Expectation(t.h, t.v, Identity, 0), growth))]

\* expectation.transform(payoff), expectation being what the loop leaves
Terminal(expectation, self, payoff) ==
    IF ~IsDRV(expectation.v) THEN expectation
    ELSE Discount(Transform(expectation.h, expectation.v, payoff),
                  RPow(RAdd(One, self.rate), self.periods))

\* the loop, from expectation = DiscreteRandomVariable([self.s0], [1])
FromStart(start, self, payoff) ==
    Terminal(MulLoop(start.h, start.v, self.increment_risk_neutral, self.periods),
             self, payoff)

EuropeanOptionEvaluate(h, self, call, strike) ==
    FromStart(DRVOfLists(h, <<self.s0>>, <<One>>), self, Payoff(call, strike))

\* <constructor call>.european_option_evaluate(call, strike)
Evaluated(sub, call, strike) ==
    IF sub.v.kind # "BM" THEN sub
    ELSE EuropeanOptionEvaluate(sub.h, sub.v, call, strike)

\* type(self)(s0, u, d, p, q, self.periods - 1).european_option_evaluate(call, strike):
\* the sixth positional parameter of __init__ is rate, and periods keeps its default
SubOption(h, s0, u, d, p, q, periods_minus_1, call, strike) ==
    Evaluated(BMInit(h, s0, u, d, p, q, Whole(periods_minus_1), DefaultPeriods),
              call, strike)

\* return (option_up - option_down) / (u - d) / self.s0
DeltaQuotient(option_up, option_down, self, u, d) ==
    IF ~IsNumber(option_down.v) THEN option_down
    ELSE IF u = d \/ self.s0 = Zero THEN Raise(option_down.h, "ZeroDivisionError")
    ELSE [h |-> option_down.h,
          v |-> Number(RDiv(RDiv(RSub(option_up.v.val, option_down.v.val),
                                 RSub(u, d)), self.s0))]

\* option_down = ..., once option_up is known
DeltaDown(option_up, self, u, d, p, q, call, strike) ==
    IF ~IsNumber(option_up.v) THEN option_up
    ELSE DeltaQuotient(option_up,
                       SubOption(option_up.h, RMul(self.s0, d), u, d, p, q,
                                 self.periods - 1, call, strike),
                       self, u, d)

\* option_up = ..., with u, d, p, q read from self.increment
DeltaUp(h, self, u, d, p, q, call, strike) ==
    DeltaDown(SubOption(h, RMul(self.s0, u), u, d, p, q,
                        self.periods - 1, call, strike),
              self, u, d, p, q, call, strike)

Delta(h, self, call, strike) ==
    IF ~(self.periods > 0) THEN Raise(h, "AssertionError")
    ELSE DeltaUp(h, self,
                 h[self.increment.domain][2], h[self.increment.domain][1],
                 h[self.increment.probability][2], h[self.increment.probability][1],
                 call, strike)

(***************************************************************************)
(* Bounds and the inputs the client draws from                             *)
(***************************************************************************)
MaxOps == 1
MaxPeriods == 2
\* the numbers the client computes with: |numerator|, denominator of an outcome
\* and denominator of a probability stay within these
MaxNumerator == 25
MaxDenominator == 1000
MaxProbDen == 8

Vars == {"a", "b", "c"}

NoWeights == [given |-> FALSE, w |-> <<>>]
Weights(w) == [given |-> TRUE, w |-> w]

\* the (domain, weights) literals a client constructs variables from
Literals ==
    { <<<<Whole(1), Whole(2)>>, NoWeights>>,
      <<<<Whole(20), Whole(10)>>, Weights(<<Whole(1), Whole(1)>>)>>,
      <<<<Whole(1), Whole(-1)>>, Weights(<<Whole(2), Whole(2)>>)>>,
      <<<<Whole(0), Whole(1)>>, Weights(<<Whole(0), Whole(3)>>)>>,
      <<<<Rat(1, 1000), Rat(2, 1000)>>, NoWeights>>,
      <<<<Whole(1), Whole(2)>>, Weights(<<Whole(2), Whole(-1)>>)>>,
      <<<<Whole(1), Whole(1)>>, NoWeights>>,
      <<<<>>, NoWeights>>,
      <<<<>>, Weights(<<>>)>>,
      <<<<Whole(1), Whole(2)>>, Weights(<<Whole(1)>>)>>,
      <<<<Whole(1), Whole(2)>>, Weights(<<Whole(1), Whole(-1)>>)>> }

\* the literals the second operand b is constructed from
OtherLiterals ==
    { <<<<Whole(20), Whole(10)>>, Weights(<<Whole(1), Whole(1)>>)>>,
      <<<<Whole(1), Whole(-1)>>, Weights(<<Whole(2), Whole(2)>>)>>,
      <<<<Rat(1, 1000), Rat(2, 1000)>>, NoWeights>> }

Scalars == {Whole(0), Whole(2)}
NotANumber == [kind |-> "str"]
Funcs == {Identity, Absolute, Payoff(TRUE, Whole(1))}
Precisions == {0, 2}
Selves == {"a", "c"}
\* draws of random.uniform(0, 1)
Thresholds == {Whole(0), Rat(1, 4), Rat(1, 2), Rat(9, 10)}

\* (s0, u, d, rate) of the models a client builds
Markets ==
    { <<Whole(100), Rat(11, 10), Rat(9, 10), Whole(0)>>,
      <<Whole(100), Rat(3, 2), Rat(1, 2), Rat(1, 4)>>,
      <<Whole(100), Rat(11, 10), Rat(9, 10), Rat(1, 4)>>,
      <<Whole(1), Rat(1001, 1000), Rat(999, 1000), Whole(0)>>,
      <<Whole(100), Rat(9, 10), Rat(11, 10), Whole(0)>>,
      <<Whole(100), Rat(11, 10), Rat(11, 10), Whole(0)>> }
RealWorld == {<<Whole(1), Whole(1)>>, <<Whole(1), Whole(3)>>, <<Whole(0), Whole(0)>>}
Strikes == {Whole(100), Whole(1)}

(***************************************************************************)
(* State                                                                   *)
(***************************************************************************)
VARIABLES
    heap,   \* address -> contents of the array stored there
    env,    \* the client's variables a, b, c: a DRV object or None
    bm,     \* the client's BinomialModel, or None
    ret,    \* what the last call returned or raised
    last,   \* the last call: its name, arguments and the values before it
    nops,   \* assignments to c so far
    made    \* the arguments bm was constructed with (history)

vars == <<heap, env, bm, ret, last, nops, made>>

ObjAddrs(o) ==
    IF o.kind = "DRV" THEN {o.domain, o.probability}
    ELSE IF o.kind = "BM"
    THEN {o.risk_neutral, o.increment.domain, o.increment.probability,
          o.increment_risk_neutral.domain, o.increment_risk_neutral.probability}
    ELSE {}

\* arrays no variable refers to any more are reclaimed
Collect(h, e, m) ==
    LET live == ObjAddrs(m) \cup UNION {ObjAddrs(e[v]) : v \in Vars}
    IN  [a \in live |-> h[a]]

\* a DRV object by value
View(h, o) ==
    IF o.kind = "DRV"
    THEN [kind |-> "DRV", domain |-> h[o.domain], probability |-> h[o.probability]]
    ELSE IF o.kind = "BM"
    THEN [kind |-> "BM", s0 |-> o.s0, rate |-> o.rate, periods |-> o.periods,
          risk_neutral |-> h[o.risk_neutral],
          increment |-> [domain |-> h[o.increment.domain],
                         probability |-> h[o.increment.probability]],
          increment_risk_neutral |->
                        [domain |-> h[o.increment_risk_neutral.domain],
                         probability |-> h[o.increment_risk_neutral.probability]]]
    ELSE o

Snapshot == [v \in Vars |-> View(heap, env[v])]

NoCall == [op |-> "", self |-> "", other |-> NoneValue, arg |-> NoneValue,
           pre |-> [v \in Vars |-> NoneValue]]

Init ==
    /\ heap = <<>>
    /\ env = [v \in Vars |-> NoneValue]
    /\ bm = NoneValue
    /\ ret = NoneValue
    /\ last = NoCall
    /\ nops = 0
    /\ made = NoneValue

\* DiscreteRandomVariable(domain) or DiscreteRandomVariable(domain, weights)
Constructed(h, lit) ==
    IF lit[2].given THEN DRVOfLists(h, lit[1], lit[2].w)
    ELSE LET d == New(h, lit[1]) IN DRVInit(d.h, d.v, NoAddr)

\* t = <call>: r is what the call returns; a raise leaves t as it was
Bind(t, r, call) ==
    /\ env' = IF r.v.kind = "error" THEN env ELSE [env EXCEPT ![t] = r.v]
    /\ heap' = Collect(r.h, env', bm)
    /\ ret' = View(r.h, r.v)
    /\ last' = call
    /\ UNCHANGED <<bm, made>>

\* x = DiscreteRandomVariable(domain, weights) for x one of a, b
Construct(t, lit) ==
    /\ bm = NoneValue /\ env[t] = NoneValue /\ nops = 0
    /\ \/ t = "a" /\ env["b"] = NoneValue
       \/ t = "b" /\ IsDRV(env["a"]) /\ lit \in OtherLiterals
    /\ Bind(t, Constructed(heap, lit),
            [op |-> "new", self |-> t, other |-> NoneValue,
             arg |-> [domain |-> lit[1], weights |-> lit[2]], pre |-> Snapshot])
    /\ UNCHANGED nops

\* the operand a client passes: one of its variables, a number or a string
Operand(o) == IF o.kind = "var" THEN env[o.name] ELSE o
Operands ==
    {[kind |-> "var", name |-> v] : v \in {w \in Vars : IsDRV(env[w])}}
        \cup {Number(x) : x \in Scalars} \cup {NotANumber}

\* c = <call>
Assign(r, call) ==
    /\ Bind("c", r, call)
    /\ nops' = IF env' = env THEN nops ELSE nops + 1

InRange(o) ==
    /\ \A i \in DOMAIN heap[o.domain] :
          /\ Abs(heap[o.domain][i][1]) <= MaxNumerator
          /\ heap[o.domain][i][2] <= MaxDenominator
    /\ \A i \in DOMAIN heap[o.probability] : heap[o.probability][i][2] <= MaxProbDen

Usable(s) == bm = NoneValue /\ IsDRV(env[s]) /\ InRange(env[s])

CanOperate(s, o) ==
    /\ Usable(s) /\ nops < MaxOps
    /\ o.kind = "var" => InRange(env[o.name])

CanTransform(s) == Usable(s) /\ nops < MaxOps

DoAdd(s, o) ==
    /\ CanOperate(s, o)
    /\ Assign(Add(heap, env[s], Operand(o)),
              [op |-> "+", self |-> s, other |-> o, arg |-> NoneValue, pre |-> Snapshot])

DoSub(s, o) ==
    /\ CanOperate(s, o)
    /\ Assign(Sub(heap, env[s], Operand(o)),
              [op |-> "-", self |-> s, other |-> o, arg |-> NoneValue, pre |-> Snapshot])

DoMul(s, o) ==
    /\ CanOperate(s, o)
    /\ Assign(Mul(heap, env[s], Operand(o)),
              [op |-> "*", self |-> s, other |-> o, arg |-> NoneValue, pre |-> Snapshot])

DoDiv(s, o) ==
    /\ CanOperate(s, o)
    /\ Assign(TrueDiv(heap, env[s], Operand(o)),
              [op |-> "/", self |-> s, other |-> o, arg |-> NoneValue, pre |-> Snapshot])

DoTransform(s, f) ==
    /\ CanTransform(s)
    /\ Assign(Transform(heap, env[s], f),
              [op |-> "transform", self |-> s, other |-> NoneValue, arg |-> f,
               pre |-> Snapshot])

DoCopy(s) ==
    /\ CanTransform(s)
    /\ Assign(Copy(heap, env[s]),
              [op |-> "copy", self |-> s, other |-> NoneValue, arg |-> NoneValue,
               pre |-> Snapshot])

\* calls that return a number and assign nothing
Query(value, call) ==
    /\ ret' = value
    /\ last' = call
    /\ UNCHANGED <<heap, env, bm, nops, made>>

DoExpectation(s, f, precision) ==
    /\ Usable(s)
    /\ Query(Number(Expectation(heap, env[s], f, precision)),
             [op |-> "expectation", self |-> s, other |-> NoneValue,
              arg |-> [f |-> f, precision |-> precision], pre |-> Snapshot])

DoDispersion(s, precision) ==
    /\ Usable(s)
    /\ Query(Number(Dispersion(heap, env[s], precision)),
             [op |-> "dispersion", self |-> s, other |-> NoneValue,
              arg |-> [precision |-> precision], pre |-> Snapshot])

DoPick(s, threshold) ==
    /\ bm = NoneValue /\ IsDRV(env[s])
    /\ Query(Pick(heap, env[s], threshold),
             [op |-> "pick", self |-> s, other |-> NoneValue,
              arg |-> [threshold |-> threshold], pre |-> Snapshot])

\* bm = <constructor call with arguments args>; a raise leaves bm as it was
BindModel(r, args) ==
    /\ bm' = IF r.v.kind = "BM" THEN r.v ELSE bm
    /\ made' = IF r.v.kind = "BM" THEN args ELSE made
    /\ heap' = Collect(r.h, env, bm')
    /\ ret' = View(r.h, r.v)
    /\ last' = [op |-> "model", self |-> "", other |-> NoneValue, arg |-> args,
                pre |-> Snapshot]
    /\ UNCHANGED <<env, nops>>

\* bm = BinomialModel(s0, u, d, p, q, rate, periods)
NewModel(mkt, pq, periods) ==
    /\ bm = NoneValue /\ \A v \in Vars : env[v] = NoneValue
    /\ BindModel(BMInit(heap, mkt[1], mkt[2], mkt[3], pq[1], pq[2], mkt[4], periods),
                 [s0 |-> mkt[1], u |-> mkt[2], d |-> mkt[3], p |-> pq[1],
                  q |-> pq[2], rate |-> mkt[4], periods |-> periods])

\* a call on bm that returns a number; its temporaries are reclaimed
ModelCall(r, call) ==
    /\ heap' = Collect(r.h, env, bm)
    /\ ret' = r.v
    /\ last' = call
    /\ UNCHANGED <<env, bm, nops, made>>

DoEvaluate(call, strike) ==
    /\ bm.kind = "BM"
    /\ ModelCall(EuropeanOptionEvaluate(heap, bm, call, strike),
                 [op |-> "evaluate", self |-> "", other |-> NoneValue,
                  arg |-> [call |-> call, strike |-> strike],
                  pre |-> Snapshot])

DoDelta(call, strike) ==
    /\ bm.kind = "BM"
    /\ ModelCall(Delta(heap, bm, call, strike),
                 [op |-> "delta", self |-> "", other |-> NoneValue,
                  arg |-> [call |-> call, strike |-> strike],
                  pre |-> Snapshot])

Next ==
    \/ \E t \in Vars, lit \in Literals : Construct(t, lit)
    \/ \E s \in Selves : \E o \in Operands : DoAdd(s, o)
    \/ \E s \in Selves : \E o \in Operands : DoSub(s, o)
    \/ \E s \in Selves : \E o \in Operands : DoMul(s, o)
    \/ \E s \in Selves : \E o \in Operands : DoDiv(s, o)
    \/ \E s \in Selves, f \in Funcs : DoTransform(s, f)
    \/ \E s \in Selves : DoCopy(s)
    \/ \E s \in Selves, f \in {Identity, Absolute}, precision \in Precisions : DoExpectation(s, f, precision)
    \/ \E s \in Selves : DoDispersion(s, 0)
    \/ \E s \in Selves, threshold \in Thresholds : DoPick(s, threshold)
    \/ \E mkt \in Markets, pq \in RealWorld, periods \in 0..MaxPeriods :
          NewModel(mkt, pq, periods)
    \/ \E call \in BOOLEAN, strike \in Strikes : DoEvaluate(call, strike)
    \/ \E call \in BOOLEAN, strike \in Strikes : DoDelta(call, strike)

Spec == Init /\ [][Next]_vars

(***************************************************************************)
(* Properties                                                              *)
(***************************************************************************)
BinaryOps == {"+", "-", "*"}
IsBinary == last.op \in BinaryOps
OtherIsDRV == last.other.kind = "var"
SelfBefore == last.pre[last.self]
OtherBefore == last.pre[last.other.name]
SeqSet(q) == {q[i] : i \in DOMAIN q}

\* every DRV the client holds, by value
Held == {View(heap, env[v]) : v \in {w \in Vars : IsDRV(env[w])}}
            \cup (IF bm.kind = "BM"
                  THEN {View(heap, bm.increment), View(heap, bm.increment_risk_neutral)}
                  ELSE {})

\* C3: every DRV has as many probabilities as outcomes, and they sum to 1
C3_Normalized ==
    \A x \in Held : Len(x.domain) = Len(x.probability) /\ RSum(x.probability) = One

\* C4: a domain with two equal entries is refused at construction, and every DRV
\* that exists has a strictly ascending domain
C4_DistinctAscending ==
    /\ \A x \in Held :
          \A i \in DOMAIN x.domain, j \in DOMAIN x.domain :
             i < j => RLt(x.domain[i], x.domain[j])
    /\ (last.op = "new" /\ \E i, j \in DOMAIN last.arg.domain :
                               i # j /\ last.arg.domain[i] = last.arg.domain[j])
          => ret.kind = "error"

\* C5: a model that violates d < 1 + rate < u is refused at construction, so the
\* risk-neutral probabilities of every model are non-negative
C5_RiskNeutralNonNegative ==
    bm.kind = "BM" =>
        \A i \in DOMAIN heap[bm.increment_risk_neutral.probability] :
            RLe(Zero, heap[bm.increment_risk_neutral.probability][i])

\* a DRV with at least one outcome
NonEmpty(x) == Len(x.domain) > 0

\* C6: for a DRV a (with at least one outcome) and an operand that is neither a
\* number nor a DRV, a + x, a - x and a * x raise instead of returning
C6_BadOperandRaises ==
    (IsBinary /\ last.other.kind = "str" /\ NonEmpty(SelfBefore)) => ret.kind = "error"

\* C9: dividing a DRV (with at least one outcome) by a DRV whose domain contains
\* 0, or by the number 0, raises DivisionByZero (ZeroDivisionError)
C9_DivisionByZero ==
    (/\ last.op = "/" /\ NonEmpty(SelfBefore)
     /\ \/ OtherIsDRV /\ Zero \in SeqSet(OtherBefore.domain)
        \/ last.other.kind = "number" /\ last.other.val = Zero)
        => ret.kind = "error" /\ ret.exc = "ZeroDivisionError"

\* sum of the first i probabilities
RECURSIVE Cumulative(_, _)
Cumulative(p, i) == IF i = 0 THEN Zero ELSE RAdd(Cumulative(p, i - 1), p[i])

\* C10: pick() returns domain[i] for the smallest i whose running sum strictly
\* exceeds the draw, never an outcome of probability 0, and never runs off the end
C10_PickStrictlyExceeds ==
    (last.op = "pick" /\ NonEmpty(SelfBefore)) =>
        /\ ret.kind = "number"
        /\ \E i \in DOMAIN SelfBefore.domain :
              /\ ret.val = SelfBefore.domain[i]
              /\ RLt(last.arg.threshold, Cumulative(SelfBefore.probability, i))
              /\ \A j \in 1..(i - 1) :
                    ~RLt(last.arg.threshold, Cumulative(SelfBefore.probability, j))
              /\ SelfBefore.probability[i] # Zero

\* European option value on a model built from (s0, u, d, p, q, rate, periods)
OptionValue(s0, u, d, p, q, rate, periods, call, strike) ==
    Evaluated(BMInit(<<>>, s0, u, d, p, q, rate, periods), call, strike).v.val

\* C1: delta is (V_up - V_down) / ((u - d) * s0), V_up and V_down being the option
\* values on the models with the same u, d, rate and periods - 1 periods that
\* start at s0 * u and s0 * d
C1_DeltaFiniteDifference ==
    (last.op = "delta" /\ made.periods >= 1) =>
        /\ ret.kind = "number"
        /\ ret.val =
             RDiv(RSub(OptionValue(RMul(made.s0, made.u), made.u, made.d, made.p, made.q,
                                   made.rate, made.periods - 1,
                                   last.arg.call, last.arg.strike),
                       OptionValue(RMul(made.s0, made.d), made.u, made.d, made.p, made.q,
                                   made.rate, made.periods - 1,
                                   last.arg.call, last.arg.strike)),
                  RMul(RSub(made.u, made.d), made.s0))

\* the mass of the pairs (i, j) with val[i][j] = v
PairMass(A, B, val, v) ==
    RSum([i \in DOMAIN A.domain |->
            RSum([j \in DOMAIN B.domain |->
                    IF val[i][j] = v THEN RMul(A.probability[i], B.probability[j])
                    ELSE Zero])])

\* ret is the convolution of A and B under val: its domain is the set of the
\* distinct values val[i][j], each with the mass of the pairs that give it
IsConvolution(A, B, val) ==
    /\ ret.kind = "DRV"
    /\ SeqSet(ret.domain) = {val[i][j] : i \in DOMAIN A.domain, j \in DOMAIN B.domain}
    /\ \A k, l \in DOMAIN ret.domain : k # l => ret.domain[k] # ret.domain[l]
    /\ Len(ret.probability) = Len(ret.domain)
    /\ \A k \in DOMAIN ret.domain :
          ret.probability[k] = PairMass(A, B, val, ret.domain[k])

\* op(a_i, b_j) for every pair
ExactValues ==
    [i \in DOMAIN SelfBefore.domain |->
        [j \in DOMAIN OtherBefore.domain |->
            ApplyOp(last.op, SelfBefore.domain[i], OtherBefore.domain[j])]]

RoundedValues ==
    [i \in DOMAIN SelfBefore.domain |->
        [j \in DOMAIN OtherBefore.domain |-> Round(ExactValues[i][j], RoundDigits)]]

\* C2 as stated: the outcomes of A op B are the exact values op(a_i, b_j), each
\* with the mass of the pairs that give it
C2_ExactConvolution ==
    (IsBinary /\ OtherIsDRV /\ ret.kind = "DRV") =>
        IsConvolution(SelfBefore, OtherBefore, ExactValues)

\* C2 amended: whenever A op B (op one of +, -, *) returns, it returns the DRV
\* whose outcomes are the distinct values round(op(a_i, b_j), 5), each with the
\* sum of P(A = a_i) * P(B = b_j) over the pairs that round to it
C2_RoundedConvolution ==
    (IsBinary /\ OtherIsDRV /\ ret.kind # "error") =>
        IsConvolution(SelfBefore, OtherBefore, RoundedValues)

\* an operation on two DRVs in which rounding changed a value and pairs merged
C2_Witness ==
    /\ IsBinary /\ OtherIsDRV /\ ret.kind = "DRV"
    /\ Len(ret.domain) < Len(SelfBefore.domain) * Len(OtherBefore.domain)
    /\ \E i \in DOMAIN SelfBefore.domain, j \in DOMAIN OtherBefore.domain :
          RoundedValues[i][j] # ExactValues[i][j]

RECURSIVE Binomial(_, _)
Binomial(n, k) ==
    IF k = 0 \/ k = n THEN 1 ELSE Binomial(n - 1, k - 1) + Binomial(n - 1, k)

PiUp == RDiv(RSub(RAdd(One, made.rate), made.d), RSub(made.u, made.d))
PiDown == RDiv(RSub(RSub(made.u, One), made.rate), RSub(made.u, made.d))
Growth == RPow(RAdd(One, made.rate), made.periods)

\* sum over k of C(n, k) pi_u^k pi_d^(n-k) payoff(s0 u^k d^(n-k))
ClosedForm(payoff) ==
    LET n == made.periods
    IN  RSum([k1 \in 1..(n + 1) |->
                LET k == k1 - 1
                IN  RMul(RMul(Whole(Binomial(n, k)),
                              RMul(RPow(PiUp, k), RPow(PiDown, n - k))),
                         Call(payoff, RMul(made.s0,
                                           RMul(RPow(made.u, k), RPow(made.d, n - k)))))])

\* sum over the 2^n paths from price x of the path's probability times the payoff
\* at its end, the price being rounded after every multiplication by u or d
RECURSIVE PathSum(_, _, _)
PathSum(n, x, payoff) ==
    IF n = 0 THEN Call(payoff, x)
    ELSE RAdd(RMul(PiUp, PathSum(n - 1, Round(RMul(x, made.u), RoundDigits), payoff)),
              RMul(PiDown, PathSum(n - 1, Round(RMul(x, made.d), RoundDigits), payoff)))

\* C7 as stated: the value is the binomial closed form over the exact terminal
\* prices s0 u^k d^(n-k), discounted by (1 + rate)^n
C7_ClosedForm ==
    last.op = "evaluate" =>
        /\ ret.kind = "number"
        /\ ret.val = RDiv(ClosedForm(Payoff(last.arg.call, last.arg.strike)), Growth)

\* C7 amended: the value is the discounted sum over the up/down paths of the
\* path's risk-neutral probability times the payoff at the path's terminal price,
\* where the price is rounded to 5 decimals after each of the n multiplications
\* (paths that reach the same rounded price are merged); for n = 0 it is payoff(s0)
C7_RoundedPaths ==
    last.op = "evaluate" =>
        /\ ret.kind = "number"
        /\ ret.val = RDiv(PathSum(made.periods, made.s0,
                                  Payoff(last.arg.call, last.arg.strike)), Growth)

\* a valuation over at least two periods whose terminal prices were rounded
C7_Witness ==
    /\ last.op = "evaluate" /\ made.periods >= 2 /\ ret.kind = "number"
    /\ ret.val # RDiv(ClosedForm(Payoff(last.arg.call, last.arg.strike)), Growth)
    /\ ret.val # Zero

\* the variable a call assigns
Target(call) ==
    IF call.op = "new" THEN {call.self}
    ELSE IF call.op \in BinaryOps \cup {"/", "transform", "copy"} THEN {"c"}
    ELSE {}

\* the arrays of the objects the client holds, one entry per reference
ArrayRefs ==
    LET drvs == <<env["a"], env["b"], env["c"]>>
                    \o (IF bm.kind = "BM"
                        THEN <<bm.increment, bm.increment_risk_neutral>> ELSE <<>>)
        refs(o) == IF IsDRV(o) THEN <<o.domain, o.probability>> ELSE <<>>
        RECURSIVE Flat(_)
        Flat(q) == IF q = <<>> THEN <<>> ELSE refs(Head(q)) \o Flat(Tail(q))
    IN  Flat(drvs) \o (IF bm.kind = "BM" THEN <<bm.risk_neutral>> ELSE <<>>)

\* no array is referred to twice
NoSharing == Cardinality(SeqSet(ArrayRefs)) = Len(ArrayRefs)

\* C8: a call changes no object it was given: every variable other than the one
\* assigned refers to the same arrays with the same contents afterwards, the
\* model's fields are unchanged by european_option_evaluate and delta, and the
\* object returned shares no array with any other
C8_NoMutation ==
    [][/\ \A v \in Vars \ Target(last') :
             env'[v] = env[v] /\ View(heap', env'[v]) = View(heap, env[v])
       /\ last'.op # "model" => bm' = bm /\ View(heap', bm') = View(heap, bm)
       /\ NoSharing']_vars

\* c = a op b has run on two DRVs and returned a DRV
C8_Witness ==
    /\ IsBinary /\ OtherIsDRV /\ last.self = "a" /\ last.other.name = "b"
    /\ IsDRV(env["a"]) /\ IsDRV(env["b"]) /\ IsDRV(env["c"])
====
